---- MODULE Spec2Model ----
(***************************************************************************)
(* A model of sphinxcontrib.intertex (src/sphinxcontrib/intertex/          *)
(* __init__.py): the three Sphinx event handlers expand_aux_file_names,    *)
(* read_mapping and missing_reference, with the helpers they call.         *)
(*                                                                         *)
(* Strings are sequences of symbols.  A symbol is one character, written   *)
(* as a one-character string, except that                                  *)
(*   - the macro name \newlabel is written as the one symbol "\\newlabel", *)
(*   - a brace-free word of a reference-format template ("label",          *)
(*     ", page ") is written as one symbol,                                *)
(*   - "U+00E9" stands for the one non-ASCII character e-acute.            *)
(* No symbol other than "{" and "}" contains a brace, so the regular       *)
(* expressions of the source, which only tell braces from non-braces, act  *)
(* on symbols exactly as they act on characters.                           *)
(***************************************************************************)
EXTENDS Integers, Sequences, FiniteSets, Bags, TLC

VARIABLES
    pc,                  \* position of the handler that is running
    raised,              \* the exception that left the handler ("" if none)
    log,                 \* bag of the records logged so far
    intertex_mapping,    \* config.intertex_mapping: sequence of <<key, value>>
    modules,             \* environment: module name -> outcome of its lookup
    fs_glob,             \* environment: pattern -> glob.glob's result
    new_intertex_mapping,\* expand_aux_file_names' local dictionary
    aux_files,           \* environment: file name -> the file, if it can be opened
    i,                   \* index of the mapping entry a handler's loop is at
    f,                   \* read_mapping: lines of the open file not yet read
    intertex_refs,       \* env.intertex_refs: label -> <<bibentry, section, page>>
    citation_refs,       \* citation domain: bibentry -> set of docnames
    already_warned_about_redefinition,
    citations,           \* citation domain: bibentry -> <<docname, labelid, lineno>>
    format,              \* app.builder.format
    intertex_formats,    \* config.intertex_formats
    intertex_reference_format, \* config.intertex_reference_format
    node,                \* the pending_xref of the last missing-reference event
    result,              \* what the last missing_reference call returned
    calls                \* number of missing-reference events so far

vars == <<pc, raised, log, intertex_mapping, modules, fs_glob,
          new_intertex_mapping, aux_files, i, f, intertex_refs, citation_refs,
          already_warned_about_redefinition, citations, format,
          intertex_formats, intertex_reference_format, node, result, calls>>

---------------------------------------------------------------------------
(* Bounds of the model *)

\* total number of lines over all auxiliary files of one run
MaxLines == 3
\* number of missing-reference events of one build
MaxCalls == 2

---------------------------------------------------------------------------
(* Strings, dictionaries, the log *)

\* a dictionary is a function on its keys; d[k] = v overwrites or inserts
DictSet(d, k, v) == (k :> v) @@ d

LogRecord(level, msg, arg) == [level |-> level, msg |-> msg, arg |-> arg]
Logged(l, rec) == l (+) SetToBag({rec})

RECURSIVE Flatten(_)
Flatten(ss) == IF ss = <<>> THEN <<>> ELSE Head(ss) \o Flatten(Tail(ss))

\* str.replace(a, b) for a one-symbol a
ReplaceChar(s, a, b) == [k \in 1..Len(s) |-> IF s[k] = a THEN b ELSE s[k]]

\* the set of sequences over S of length at most n
SeqsUpTo(S, n) == UNION {[1..k -> S] : k \in 0..n}

---------------------------------------------------------------------------
(* The regular expressions *)

IsBrace(c) == c \in {"{", "}"}

\* the first position >= k of s that holds a brace, Len(s) + 1 if none does
RECURSIVE NextBrace(_, _)
NextBrace(s, k) ==
    IF k > Len(s) THEN Len(s) + 1
    ELSE IF IsBrace(s[k]) THEN k ELSE NextBrace(s, k + 1)

\* BRACKETED_VALUE_REGEX = \{([^\{\}]*)\}: the non-overlapping matches in s
\* from position k on, leftmost first, each as <<position of "{", position
\* of "}">>.  A "{" starts a match iff the next brace after it is a "}".
RECURSIVE BracketedValueMatches(_, _)
BracketedValueMatches(s, k) ==
    IF k > Len(s) THEN <<>>
    ELSE IF s[k] = "{"
         THEN LET j == NextBrace(s, k + 1)
              IN  IF j <= Len(s) /\ s[j] = "}"
                  THEN <<<<k, j>>>> \o BracketedValueMatches(s, j + 1)
                  ELSE BracketedValueMatches(s, k + 1)
         ELSE BracketedValueMatches(s, k + 1)

\* BRACKETED_VALUE_REGEX.findall(s): the capture group of every match
FindAll(s) ==
    LET ms == BracketedValueMatches(s, 1)
    IN  [n \in 1..Len(ms) |-> SubSeq(s, ms[n][1] + 1, ms[n][2] - 1)]

\* BRACKETED_VALUE_REGEX.split(s): the text before the first match, then for
\* every match its capture group and the text up to the next match (or the
\* end); 2 * (number of matches) + 1 parts
Split(s) ==
    LET ms == BracketedValueMatches(s, 1)
        TextBefore(n) ==
            SubSeq(s, IF n = 1 THEN 1 ELSE ms[n - 1][2] + 1,
                      IF n > Len(ms) THEN Len(s) ELSE ms[n][1] - 1)
    IN  [n \in 1..(2 * Len(ms) + 1) |->
            IF n % 2 = 1 THEN TextBefore((n + 1) \div 2)
            ELSE SubSeq(s, ms[n \div 2][1] + 1, ms[n \div 2][2] - 1)]

\* AUX_ENTRY_REGEX = \\newlabel(.*), used with match(): anchored at the
\* start of the line
AuxEntryMatches(line) == Len(line) >= 1 /\ line[1] = "\\newlabel"
AuxEntryGroup(line) == Tail(line)

---------------------------------------------------------------------------
(* read_mapping *)

\* the first position of c in s, 0 if there is none
RECURSIVE Find(_, _, _)
Find(s, c, k) ==
    IF k > Len(s) THEN 0 ELSE IF s[k] = c THEN k ELSE Find(s, c, k + 1)

\* a variant that forgets the after-colon key
SphinxTargetsLabelOnly(label) == <<label>>

\* sphinx_targets: the label and, if it holds a colon, what follows its
\* first colon (label.partition(":")[2])
SphinxTargets(label) ==
    LET c == Find(label, ":", 1)
    IN  IF c = 0 THEN <<label>>
        ELSE <<label, SubSeq(label, c + 1, Len(label))>>

\* a variant that warns at every redefinition
ShouldWarnEveryTime(refs, warned, target) == target \in DOMAIN refs

\* the test that guards the redefinition warning
ShouldWarn(refs, warned, target) ==
    target \in DOMAIN refs /\ target \notin warned

\* a variant in which the first definition wins
StoreRefFirstWins(refs, target, tuple) ==
    IF target \in DOMAIN refs THEN refs ELSE DictSet(refs, target, tuple)

\* env.intertex_refs[sphinx_target] = (bibentry, section, page)
StoreRef(refs, target, tuple) == DictSet(refs, target, tuple)

RedefinitionWarning(target) ==
    LogRecord("warning", "defined multiple times", target)

\* the body of "for sphinx_target in sphinx_targets", over the targets left
RECURSIVE DefineTargets(_, _, _)
DefineTargets(st, targets, tuple) ==
    IF targets = <<>> THEN st
    ELSE LET t == Head(targets)
             w == ShouldWarn(st.refs, st.warned, t)
             st1 == [st EXCEPT
                       !.log = IF w THEN Logged(@, RedefinitionWarning(t))
                               ELSE @,
                       !.warned = IF w THEN @ \cup {t} ELSE @,
                       !.refs = StoreRef(@, t, tuple)]
         IN  DefineTargets(st1, Tail(targets), tuple)

\* the body of "for line in f".  args[0], args[1], args[2] raise IndexError
\* when findall yields fewer than three groups.
ReadLine(st, bibentry, line) ==
    IF ~AuxEntryMatches(line) THEN st
    ELSE LET args == FindAll(AuxEntryGroup(line))
         IN  IF Len(args) < 3 THEN [st EXCEPT !.raised = "IndexError"]
             ELSE DefineTargets(st, SphinxTargets(args[1]),
                                <<bibentry, args[2], args[3]>>)

\* "for line in f" to its end, or to the line that raises
RECURSIVE ReadFile(_, _, _)
ReadFile(st, bibentry, lines) ==
    IF lines = <<>> \/ st.raised # "" THEN st
    ELSE ReadFile(ReadLine(st, bibentry, Head(lines)), bibentry, Tail(lines))

\* a variant that replaces the docnames instead of adding to them
MarkUsedOverwrite(refs, bibentry) == DictSet(refs, bibentry, {""})

\* docnames = citation_refs.setdefault(bibentry, set()); docnames.add("")
MarkUsed(refs, bibentry) ==
    DictSet(refs, bibentry,
            (IF bibentry \in DOMAIN refs THEN refs[bibentry] ELSE {}) \cup {""})

\* read_mapping's state at its start: env.intertex_refs = {},
\* already_warned_about_redefinition = set()
ReadState0(l) == [refs |-> <<>>, warned |-> {}, log |-> l, raised |-> ""]

---------------------------------------------------------------------------
(* The inputs of a build *)

\* the bibliography keys of intertex_mapping, and the file of its k-th entry
Bibs == {"docA", "docB"}
FileNames == <<"a.aux", "b.aux">>

\* the injective sequences over S of length n: the key orders of a dict
InjSeqs(S, n) ==
    {q \in [1..n -> S] : \A a, b \in 1..n : q[a] = q[b] => a = b}

NL(label, rest) == <<"\\newlabel", "{">> \o label \o <<"}">> \o rest

\* lines of an auxiliary file
AuxLines == {
    \* \newlabel{a}{1}{2}
    NL(<<"a">>, <<"{", "1", "}", "{", "2", "}">>),
    \* \newlabel{b}{7}{8}
    NL(<<"b">>, <<"{", "7", "}", "{", "8", "}">>),
    \* \newlabel{s:a}{3}{4}
    NL(<<"s", ":", "a">>, <<"{", "3", "}", "{", "4", "}">>),
    \* \newlabel{t:b}{{5}{6}{T}}, as hyperref writes it
    NL(<<"t", ":", "b">>,
       <<"{", "{", "5", "}", "{", "6", "}", "{", "T", "}", "}">>),
    \* \newlabel{a}{1}: two brace groups
    NL(<<"a">>, <<"{", "1", "}">>),
    \* \relax
    <<"\\", "r", "e", "l", "a", "x">>
}

\* an auxiliary file: its lines, or a file that cannot be opened
AuxFile(lines) == [exists |-> TRUE, lines |-> lines]
NoAuxFile == [exists |-> FALSE, lines |-> <<>>]

\* a missing-reference event never fired: the values of node and result
NoNode == [reftarget |-> <<>>, reftype |-> "", refdoc |-> ""]
NoResult == [kind |-> "NoCall", children |-> <<>>]

---------------------------------------------------------------------------
(* read_mapping, the builder-inited handler, step by step *)

ReadInit ==
    /\ pc = "builder-inited"
    /\ raised = ""
    /\ log = EmptyBag
    /\ \E n \in 0..Cardinality(Bibs) :
       \E bibs \in InjSeqs(Bibs, n) :
       \E all \in SeqsUpTo(AuxLines, MaxLines) :
       \E cut \in [0..n -> 0..Len(all)] :
       \E there \in [1..n -> BOOLEAN] :
          /\ cut[0] = 0
          /\ cut[n] = Len(all)
          /\ \A k \in 1..n : cut[k - 1] <= cut[k]
          /\ \A k \in 1..n : ~there[k] => cut[k - 1] = cut[k]
          /\ intertex_mapping = [k \in 1..n |-> <<bibs[k], FileNames[k]>>]
          /\ aux_files =
                [name \in {FileNames[k] : k \in 1..n} |->
                    LET k == CHOOSE k \in 1..n : FileNames[k] = name
                    IN  IF there[k]
                        THEN AuxFile(SubSeq(all, cut[k - 1] + 1, cut[k]))
                        ELSE NoAuxFile]
    \* the citation registry before the handler runs: docA is already cited
    \* from the document "index", no other key is known
    /\ citation_refs = ("docA" :> {"index"})
    /\ modules = <<>>
    /\ fs_glob = <<>>
    /\ new_intertex_mapping = <<>>
    /\ i = 0
    /\ f = <<>>
    /\ intertex_refs = <<>>
    /\ already_warned_about_redefinition = {}
    /\ citations = <<>>
    /\ format = "latex"
    /\ intertex_formats = {"latex"}
    /\ intertex_reference_format = <<>>
    /\ node = NoNode
    /\ result = NoResult
    /\ calls = 0

ReadUnchanged ==
    UNCHANGED <<intertex_mapping, modules, fs_glob, new_intertex_mapping,
                aux_files, citations, format, intertex_formats,
                intertex_reference_format, node, result, calls>>

\* env.intertex_refs = {}; already_warned_about_redefinition = set()
ReadMappingStart ==
    /\ pc = "builder-inited"
    /\ intertex_refs' = ReadState0(log).refs
    /\ already_warned_about_redefinition' = ReadState0(log).warned
    /\ i' = 1
    /\ pc' = "for"
    /\ UNCHANGED <<raised, log, f, citation_refs>>
    /\ ReadUnchanged

\* for bibentry, aux_filename in ...: mark the citation as used
ForEntry ==
    /\ pc = "for"
    /\ i <= Len(intertex_mapping)
    /\ citation_refs' = MarkUsed(citation_refs, intertex_mapping[i][1])
    /\ pc' = "open"
    /\ UNCHANGED <<raised, log, i, f, intertex_refs,
                   already_warned_about_redefinition>>
    /\ ReadUnchanged

\* the loop over the mapping is exhausted: the handler returns
ForDone ==
    /\ pc = "for"
    /\ i > Len(intertex_mapping)
    /\ pc' = "done"
    /\ UNCHANGED <<raised, log, i, f, intertex_refs, citation_refs,
                   already_warned_about_redefinition>>
    /\ ReadUnchanged

\* with open(aux_filename, "r") as f: an OSError is not caught
OpenFile ==
    /\ pc = "open"
    /\ LET file == aux_files[intertex_mapping[i][2]]
       IN  IF file.exists
           THEN /\ f' = file.lines
                /\ pc' = "lines"
                /\ raised' = raised
           ELSE /\ f' = f
                /\ pc' = "aborted"
                /\ raised' = "OSError"
    /\ UNCHANGED <<log, i, intertex_refs, citation_refs,
                   already_warned_about_redefinition>>
    /\ ReadUnchanged

\* one iteration of "for line in f"
NextLine ==
    /\ pc = "lines"
    /\ f # <<>>
    /\ LET st == ReadLine([refs |-> intertex_refs,
                           warned |-> already_warned_about_redefinition,
                           log |-> log, raised |-> ""],
                          intertex_mapping[i][1], Head(f))
       IN  /\ intertex_refs' = st.refs
           /\ already_warned_about_redefinition' = st.warned
           /\ log' = st.log
           /\ raised' = st.raised
           /\ pc' = IF st.raised = "" THEN "lines" ELSE "aborted"
    /\ f' = Tail(f)
    /\ UNCHANGED <<i, citation_refs>>
    /\ ReadUnchanged

\* the file is exhausted: it is closed and the loop goes to the next entry
EndOfFile ==
    /\ pc = "lines"
    /\ f = <<>>
    /\ i' = i + 1
    /\ pc' = "for"
    /\ UNCHANGED <<raised, log, f, intertex_refs, citation_refs,
                   already_warned_about_redefinition>>
    /\ ReadUnchanged

ReadNext ==
    \/ ReadMappingStart
    \/ ForEntry
    \/ ForDone
    \/ OpenFile
    \/ NextLine
    \/ EndOfFile

SpecRead == ReadInit /\ [][ReadNext]_vars

---------------------------------------------------------------------------
(* What a run of read_mapping has read so far, told from its inputs *)

Bib(k) == intertex_mapping[k][1]
EntryLines(k) == aux_files[intertex_mapping[k][2]].lines

\* the lines of entry k that "for line in f" has taken
Consumed(k) ==
    IF k < i THEN EntryLines(k)
    ELSE IF k = i /\ pc \in {"lines", "aborted"}
         THEN SubSeq(EntryLines(k), 1, Len(EntryLines(k)) - Len(f))
         ELSE <<>>

\* entry k's bibliography key has been taken from the mapping
Reached(k) == k < i \/ (k = i /\ pc \in {"open", "lines", "aborted"})

\* a label-definition line: the macro, with at least three brace groups
IsLabelLine(line) ==
    AuxEntryMatches(line) /\ Len(FindAll(AuxEntryGroup(line))) >= 3

RECURSIVE RecordsOf(_, _)
RecordsOf(bibentry, lines) ==
    IF lines = <<>> THEN <<>>
    ELSE LET a == FindAll(AuxEntryGroup(Head(lines)))
             rest == RecordsOf(bibentry, Tail(lines))
         IN  IF IsLabelLine(Head(lines))
             THEN <<[label |-> a[1], tuple |-> <<bibentry, a[2], a[3]>>]>>
                  \o rest
             ELSE rest

\* the label definitions read so far, in processing order
Processed ==
    Flatten([k \in 1..Len(intertex_mapping) |-> RecordsOf(Bib(k), Consumed(k))])

HasColon(label) == \E c \in 1..Len(label) : label[c] = ":"

\* the index keys of a label: the label, and what follows its first colon
KeysOf(label) ==
    {label} \cup
    {SubSeq(label, c + 1, Len(label)) :
        c \in {c \in 1..Len(label) :
                 label[c] = ":" /\ \A d \in 1..(c - 1) : label[d] # ":"}}

AllKeys(P) == UNION {KeysOf(P[n].label) : n \in 1..Len(P)}

\* the definitions that write key, by their place in processing order
DefsOf(P, key) == {n \in 1..Len(P) : key \in KeysOf(P[n].label)}

LastDef(P, key) == CHOOSE n \in DefsOf(P, key) : \A m \in DefsOf(P, key) : m <= n

DistinctKeys(P) ==
    \A m, n \in 1..Len(P) :
        m # n => KeysOf(P[m].label) \cap KeysOf(P[n].label) = {}

NumColon(P) == Cardinality({n \in 1..Len(P) : HasColon(P[n].label)})

OneFileRead == pc = "done" /\ Len(intertex_mapping) = 1

---------------------------------------------------------------------------
(* Claims about read_mapping *)

\* C3, as stated: parsing a file with N well-formed label-definition lines
\* yields exactly N index keys (2N if every label contains a colon), each
\* mapping to the (bibref, section, page) of the line that defined it.
C3_Original ==
    OneFileRead =>
        LET P == Processed
        IN  /\ Cardinality(DOMAIN intertex_refs) =
                  IF \A n \in 1..Len(P) : HasColon(P[n].label)
                  THEN 2 * Len(P) ELSE Len(P)
            /\ \A n \in 1..Len(P) : \A key \in KeysOf(P[n].label) :
                  /\ key \in DOMAIN intertex_refs
                  /\ intertex_refs[key] = P[n].tuple

\* C3, amended: parsing a file with N well-formed label-definition lines
\* whose index keys are pairwise distinct yields exactly N + c index keys,
\* c the number of labels with a colon (N if none has one, 2N if all have),
\* each mapping to the (bibref, section, page) of the line that defined it.
C3_DistinctKeysCount ==
    OneFileRead =>
        LET P == Processed
        IN  DistinctKeys(P) =>
               /\ Cardinality(DOMAIN intertex_refs) = Len(P) + NumColon(P)
               /\ \A n \in 1..Len(P) : \A key \in KeysOf(P[n].label) :
                     /\ key \in DOMAIN intertex_refs
                     /\ intertex_refs[key] = P[n].tuple

\* two lines, both labels with a colon, four keys
C3_Witness ==
    /\ OneFileRead
    /\ DistinctKeys(Processed)
    /\ Len(Processed) = 2
    /\ NumColon(Processed) = 2
    /\ Cardinality(DOMAIN intertex_refs) = 4

\* C4: within one run, the number of duplicate-label warnings logged for an
\* index key is 1 if the key has been written two or more times and 0 if it
\* has been written once, and nothing else is logged.
C4_OneWarningPerKey ==
    LET P == Processed
        K == AllKeys(P)
    IN  /\ \A key \in K :
              CopiesIn(RedefinitionWarning(key), log) =
                  IF Cardinality(DefsOf(P, key)) >= 2 THEN 1 ELSE 0
        /\ BagToSet(log) \subseteq {RedefinitionWarning(key) : key \in K}

\* a key written three times, from files of two mapping entries
C4_Witness ==
    /\ pc = "done"
    /\ LET P == Processed
       IN  \E key \in AllKeys(P) :
              /\ Cardinality(DefsOf(P, key)) >= 3
              /\ \E m, n \in DefsOf(P, key) : P[m].tuple[1] # P[n].tuple[1]
              /\ CopiesIn(RedefinitionWarning(key), log) = 1

\* C5: the final index holds exactly the keys defined, each mapped to the
\* tuple of its last definition in processing order.
C5_LastDefinitionWins ==
    pc = "done" =>
        LET P == Processed
        IN  /\ DOMAIN intertex_refs = AllKeys(P)
            /\ \A key \in AllKeys(P) :
                  intertex_refs[key] = P[LastDef(P, key)].tuple

\* a full label of one file collides with an after-colon suffix of another
\* entry's file, with different tuples
C5_Witness ==
    /\ pc = "done"
    /\ LET P == Processed
       IN  \E key \in AllKeys(P) : \E m, n \in DefsOf(P, key) :
              /\ m < n
              /\ P[m].tuple[1] # P[n].tuple[1]
              /\ P[m].label # P[n].label
              /\ intertex_refs[key] = P[n].tuple

\* C6: a line that is not a label definition with at least three brace
\* groups adds no index key and does not abort; only a file I/O error
\* leaves read_mapping.
C6_OnlyIOErrorsPropagate ==
    /\ raised \in {"", "OSError"}
    /\ DOMAIN intertex_refs \subseteq AllKeys(Processed)

\* C10: the bibliography key of every entry reached is marked as referenced,
\* whatever happens to its file, and the registry only grows.
C10_MarkedBeforeOpen ==
    /\ [](\A k \in 1..Len(intertex_mapping) :
            Reached(k) =>
                /\ Bib(k) \in DOMAIN citation_refs
                /\ "" \in citation_refs[Bib(k)])
    /\ [][\A b \in DOMAIN citation_refs :
            /\ b \in DOMAIN citation_refs'
            /\ citation_refs[b] \subseteq citation_refs'[b]]_vars

\* the file of docA could not be opened; docA is marked, and still cited
\* from "index"
C10_Witness ==
    /\ pc = "aborted"
    /\ raised = "OSError"
    /\ Bib(i) = "docA"
    /\ citation_refs["docA"] = {"", "index"}

---------------------------------------------------------------------------
(* make_bib_reference, make_pdf_reference, missing_reference *)

\* a docutils node: Text, citation_reference, reference, or the contnode
\* of the event
Node(kind, text, fromdoc, docname, refid) ==
    [kind |-> kind, text |-> text, fromdoc |-> fromdoc, docname |-> docname,
     refid |-> refid]
Text(s) == Node("Text", s, "", "", "")
ContNode == Node("contnode", <<>>, "", "", "")

\* "[{}]".format(bibentry)
Bracketed(bibentry) == <<"[", bibentry, "]">>

\* citations.get(bibentry, ("", "", 0)), less the line number
GetCitationRef(cits, bibentry) ==
    IF bibentry \in DOMAIN cits
    THEN <<cits[bibentry][1], cits[bibentry][2]>>
    ELSE <<"", "">>

NoCitationWarning(bibentry) ==
    LogRecord("warning", "no citation", <<bibentry>>)

\* make_bib_reference: the node, and the log after the call
MakeBibReference(fmt, cits, bibentry, refdoc, l) ==
    LET ref == GetCitationRef(cits, bibentry)
    IN  IF ref[1] # ""
        THEN IF fmt = "latex"
             THEN [node |-> Node("citation_reference", Bracketed(bibentry),
                                 "", ref[1], ref[2]),
                   log |-> l]
             ELSE [node |-> Node("reference", Bracketed(bibentry),
                                 refdoc, ref[1], ref[2]),
                   log |-> l]
        ELSE [node |-> Text(Bracketed(bibentry)),
              log |-> Logged(l, NoCitationWarning(bibentry))]

\* the keys of the dictionary make_pdf_reference looks the placeholders up in
Placeholders == {<<"label">>, <<"bibref">>, <<"section">>, <<"page">>}

Substitute(name, contnode, bibref, section, page) ==
    CASE name = <<"label">> -> contnode
      [] name = <<"bibref">> -> bibref
      [] name = <<"section">> -> Text(section)
      [] name = <<"page">> -> Text(page)

ReturnedNone == [kind |-> "None", children |-> <<>>]
RaisedKeyError == [kind |-> "KeyError", children |-> <<>>]
Inline(children) == [kind |-> "inline", children |-> children]

\* the "while True" loop over the parts from the k-th (a text part) on:
\* a Text for the text part, then the node of the placeholder part; the
\* dictionary lookup raises KeyError, StopIteration ends the loop
RECURSIVE FormatParts(_, _, _, _, _, _, _)
FormatParts(parts, k, children, contnode, bibref, section, page) ==
    IF k > Len(parts) THEN Inline(children)
    ELSE LET c1 == Append(children, Text(parts[k]))
         IN  IF k + 1 > Len(parts) THEN Inline(c1)
             ELSE IF parts[k + 1] \notin Placeholders THEN RaisedKeyError
             ELSE FormatParts(parts, k + 2,
                      Append(c1, Substitute(parts[k + 1], contnode, bibref,
                                            section, page)),
                      contnode, bibref, section, page)

\* make_pdf_reference: what it returns or raises, and the log after the call
MakePdfReference(fmt, cits, template, bibentry, section, page, contnode, refdoc, l) ==
    LET bib == MakeBibReference(fmt, cits, bibentry, refdoc, l)
    IN  [result |-> FormatParts(Split(template), 1, <<>>, contnode, bib.node,
                                section, page),
         log |-> bib.log]

\* the characters sphinx.util.texescape.tex_replace_map sends to "_"
TexReplaceChars ==
    {"$", "%", "&", "#", "_", "{", "}", "\\", "~", "^", "[", "]"}

\* str.translate(tex_replace_map)
Translate(s) ==
    [k \in 1..Len(s) |-> IF s[k] \in TexReplaceChars THEN "_" ELSE s[k]]

\* .encode("ascii", "backslashreplace").decode("ascii"): e-acute becomes
\* the four characters \xe9
EncodeAscii(s) ==
    Flatten([k \in 1..Len(s) |->
                IF s[k] = "U+00E9" THEN <<"\\", "x", "e", "9">> ELSE <<s[k]>>])

\* the LaTeX writer's normalisation of a label
TexEscaped(reftarget) == ReplaceChar(EncodeAscii(Translate(reftarget)), "\\", "_")

\* a variant that leaves underscores alone
HyphenatedNot(reftarget) == reftarget

\* reftarget.replace("_", "-")
Hyphenated(reftarget) == ReplaceChar(reftarget, "_", "-")

ModulePrefix == <<"m", "o", "d", "u", "l", "e", "-">>

\* reftargets_to_try, as the three steps of the handler build it
ReftargetsToTry(reftarget, reftype) ==
    LET c1 == IF reftype = "mod"
              THEN <<reftarget, ModulePrefix \o reftarget>>
              ELSE <<reftarget>>
        c2 == c1 \o [k \in 1..Len(c1) |-> TexEscaped(c1[k])]
    IN  c2 \o [k \in 1..Len(c2) |-> Hyphenated(c2[k])]

\* a variant that returns the last candidate that is a key
RECURSIVE LastHit(_, _)
LastHit(cands, refs) ==
    IF cands = <<>> THEN 0
    ELSE IF cands[Len(cands)] \in DOMAIN refs THEN Len(cands)
    ELSE LastHit(SubSeq(cands, 1, Len(cands) - 1), refs)

\* "for reftarget in reftargets_to_try: if reftarget in env.intertex_refs":
\* the place of the first candidate that is a key, 0 if none is
RECURSIVE FirstHit(_, _)
FirstHit(cands, refs) ==
    IF cands = <<>> THEN 0
    ELSE IF Head(cands) \in DOMAIN refs THEN 1
    ELSE LET h == FirstHit(Tail(cands), refs)
         IN  IF h = 0 THEN 0 ELSE h + 1

\* a variant that is enabled for every format
FormatEnabledAlways(fmt, fmts) == TRUE

\* app.builder.format in app.config.intertex_formats
FormatEnabled(fmt, fmts) == fmt \in fmts

\* missing_reference: what it returns or raises, and the log after the call
MissingReferenceOutcome(fmt, fmts, refs, cits, template, nd, l) ==
    IF ~FormatEnabled(fmt, fmts) THEN [result |-> ReturnedNone, log |-> l]
    ELSE LET cands == ReftargetsToTry(nd.reftarget, nd.reftype)
             h == FirstHit(cands, refs)
         IN  IF h = 0 THEN [result |-> ReturnedNone, log |-> l]
             ELSE MakePdfReference(fmt, cits, template, refs[cands[h]][1],
                                   refs[cands[h]][2], refs[cands[h]][3],
                                   ContNode, nd.refdoc, l)

---------------------------------------------------------------------------
(* The missing-reference events of a build *)

NL3(label, section, page) ==
    NL(label, <<"{", section, "}", "{", page, "}">>)

\* the label definitions an index is built from, in file order
IndexLines == <<
    NL3(<<"a", "_", "b">>, "1", "2"),
    NL3(<<"a", "-", "b">>, "3", "4"),
    NL3(<<"a", "$", "b">>, "5", "6"),
    NL3(ModulePrefix \o <<"a", "_", "b">>, "7", "8"),
    NL3(<<"_", "x", "e", "9">>, "9", "9") >>

\* the lines of s whose place is in S, in order
RECURSIVE Pick(_, _, _)
Pick(s, S, k) ==
    IF k > Len(s) THEN <<>>
    ELSE (IF k \in S THEN <<s[k]>> ELSE <<>>) \o Pick(s, S, k + 1)

Targets == {
    <<"a", "_", "b">>,
    <<"a", "$", "b">>,
    <<"a", "-", "b">>,
    <<"U+00E9">>,
    <<"z">> }

RefTypes == {"mod", "ref"}

Templates == {
    \* {label} ({bibref}, page {page}), the default
    <<"{", "label", "}", " (", "{", "bibref", "}", ", page ", "{", "page",
      "}", ")">>,
    \* {label}, section {section}
    <<"{", "label", "}", ", section ", "{", "section", "}">>,
    \* {foo}
    <<"{", "foo", "}">>,
    \* {label} ({bibref
    <<"{", "label", "}", " (", "{", "bibref">>,
    \* {label}}
    <<"{", "label", "}", "}">>,
    \* {{label}
    <<"{", "{", "label", "}">> }

\* the state after expand_aux_file_names and read_mapping have run on one
\* mapping entry; docA has a citation definition, docB has none
ResolveInit ==
    /\ pc = "resolving"
    /\ raised = ""
    /\ \E bibentry \in Bibs : \E S \in SUBSET (1..Len(IndexLines)) :
          LET lines == Pick(IndexLines, S, 1)
              st == ReadFile(ReadState0(EmptyBag), bibentry, lines)
          IN  /\ intertex_mapping = <<<<bibentry, FileNames[1]>>>>
              /\ aux_files = (FileNames[1] :> AuxFile(lines))
              /\ intertex_refs = st.refs
              /\ already_warned_about_redefinition = st.warned
              /\ log = st.log
              /\ citation_refs = MarkUsed(<<>>, bibentry)
    /\ citations = ("docA" :> <<"refs", "id1", 10>>)
    /\ format \in {"latex", "html"}
    /\ intertex_formats \in {{"latex"}, {"html", "latex"}}
    /\ intertex_reference_format \in Templates
    /\ modules = <<>>
    /\ fs_glob = <<>>
    /\ new_intertex_mapping = <<>>
    /\ i = 2
    /\ f = <<>>
    /\ node = NoNode
    /\ result = NoResult
    /\ calls = 0

\* one missing-reference event: Sphinx calls missing_reference
MissingReference ==
    /\ pc = "resolving"
    /\ calls < MaxCalls
    /\ \E reftarget \in Targets : \E reftype \in RefTypes :
          LET nd == [reftarget |-> reftarget, reftype |-> reftype,
                     refdoc |-> "index"]
              out == MissingReferenceOutcome(format, intertex_formats,
                         intertex_refs, citations, intertex_reference_format,
                         nd, log)
          IN  /\ node' = nd
              /\ result' = out.result
              /\ log' = out.log
    /\ calls' = calls + 1
    /\ UNCHANGED <<pc, raised, intertex_mapping, modules, fs_glob,
                   new_intertex_mapping, aux_files, i, f, intertex_refs,
                   citation_refs, already_warned_about_redefinition,
                   citations, format, intertex_formats,
                   intertex_reference_format>>

ResolveNext == MissingReference

SpecResolve == ResolveInit /\ [][ResolveNext]_vars

---------------------------------------------------------------------------
(* Claims about missing_reference and make_pdf_reference *)

\* C1: when the builder's format is not among the enabled formats, every
\* missing_reference call returns None: no node is built, nothing is logged.
C1_DisabledFormatDeclines ==
    format \notin intertex_formats =>
        /\ calls > 0 => result = ReturnedNone
        /\ log = EmptyBag

\* a request whose target is an index key, declined in a disabled format
C1_Witness ==
    /\ calls > 0
    /\ format \notin intertex_formats
    /\ node.reftarget \in DOMAIN intertex_refs
    /\ result = ReturnedNone

\* the candidate list of C2: the target; "module-" + target for a "mod"
\* reference; the escaped variant of each of these; the hyphenated variant
\* of each of those
Candidates(nd) ==
    LET base == <<nd.reftarget>> \o
                (IF nd.reftype = "mod" THEN <<ModulePrefix \o nd.reftarget>>
                 ELSE <<>>)
        esc == base \o [k \in 1..Len(base) |-> TexEscaped(base[k])]
    IN  esc \o [k \in 1..Len(esc) |-> ReplaceChar(esc[k], "_", "-")]

\* what make_pdf_reference gives for the index tuple of key
ReferenceFor(key) ==
    MakePdfReference(format, citations, intertex_reference_format,
                     intertex_refs[key][1], intertex_refs[key][2],
                     intertex_refs[key][3], ContNode, node.refdoc,
                     EmptyBag).result

\* C2: in an enabled format, missing_reference declines iff no candidate is
\* an index key, and otherwise gives the reference built from the tuple of
\* the first candidate that is a key; the literal target wins over every
\* variant, and a_b resolves when only a-b is a key.
C2_FirstCandidateWins ==
    (calls > 0 /\ format \in intertex_formats) =>
        LET cands == Candidates(node)
            hits == {k \in 1..Len(cands) : cands[k] \in DOMAIN intertex_refs}
        IN  /\ result = ReturnedNone <=> hits = {}
            /\ hits # {} =>
                  result = ReferenceFor(
                      cands[CHOOSE k \in hits : \A m \in hits : k <= m])
            /\ node.reftarget \in DOMAIN intertex_refs =>
                  result = ReferenceFor(node.reftarget)
            /\ (/\ node.reftarget = <<"a", "_", "b">>
                /\ node.reftype = "ref"
                /\ DOMAIN intertex_refs = {<<"a", "-", "b">>}) =>
                  result = ReferenceFor(<<"a", "-", "b">>)

\* the target a_b resolved through the key a-b, the only key of the index
C2_Witness ==
    /\ calls > 0
    /\ format \in intertex_formats
    /\ node.reftarget = <<"a", "_", "b">>
    /\ node.reftype = "ref"
    /\ DOMAIN intertex_refs = {<<"a", "-", "b">>}
    /\ result.kind = "inline"

\* a template is well formed when every "{" opens a known placeholder that
\* the next "}" closes, and no "}" stands elsewhere
RECURSIVE WellFormedFrom(_, _)
WellFormedFrom(t, k) ==
    IF k > Len(t) THEN TRUE
    ELSE IF t[k] = "{"
         THEN /\ k + 2 <= Len(t)
              /\ <<t[k + 1]>> \in Placeholders
              /\ t[k + 2] = "}"
              /\ WellFormedFrom(t, k + 3)
         ELSE t[k] # "}" /\ WellFormedFrom(t, k + 1)

\* make_pdf_reference has been called by the last event
Resolved ==
    /\ calls > 0
    /\ format \in intertex_formats
    /\ FirstHit(ReftargetsToTry(node.reftarget, node.reftype), intertex_refs) # 0

\* C7: make_pdf_reference raises for every malformed template, and returns
\* no node.
C7_MalformedTemplateRaises ==
    (Resolved /\ ~WellFormedFrom(intertex_reference_format, 1)) =>
        result = RaisedKeyError

\* C9: over one build the "no citation" warning for a bibliography key is
\* logged at most once.
C9_NoCitationWarnedOnce ==
    \A bibentry \in Bibs : CopiesIn(NoCitationWarning(bibentry), log) <= 1

---------------------------------------------------------------------------
(* expand_aux_file_names, the config-inited handler *)

\* the symbols that [a-zA-Z0-9_\.]+ matches: names without a separator, a
\* brace or a wildcard
NameSymbols == {"pkg", "nopkg", "sys", "doc", "none", "site", ".", ".."}

\* importlib.import_module(name), then inspect.getsourcefile of the module
\* and os.path.dirname of that: a directory, ImportError for a module that
\* cannot be imported, TypeError for a built-in module (getsourcefile
\* raises it) or one without a source file (dirname(None) raises it)
ModuleLookup(mods, name) ==
    IF name \in DOMAIN mods THEN mods[name]
    ELSE [outcome |-> "ImportError", dir |-> <<>>]

\* BRACKETED_MODULE_NAME_REGEX.sub(lambda ..., filename_pattern) from
\* position k on: every {name} becomes the module's directory and "/"; the
\* first lookup that raises ends the substitution
RECURSIVE SubModules(_, _, _)
SubModules(mods, pattern, k) ==
    IF k > Len(pattern) THEN [raised |-> "", path |-> <<>>]
    ELSE IF /\ pattern[k] = "{"
            /\ k + 2 <= Len(pattern)
            /\ pattern[k + 1] \in NameSymbols
            /\ pattern[k + 2] = "}"
         THEN LET m == ModuleLookup(mods, pattern[k + 1])
                  rest == SubModules(mods, pattern, k + 3)
              IN  IF m.outcome # "ok"
                  THEN [raised |-> m.outcome, path |-> <<>>]
                  ELSE [rest EXCEPT !.path = m.dir \o <<"/">> \o @]
         ELSE LET rest == SubModules(mods, pattern, k + 1)
              IN  [rest EXCEPT !.path = <<pattern[k]>> \o @]

\* path.split("/") from position k on, cur the component being read
RECURSIVE Components(_, _, _)
Components(path, k, cur) ==
    IF k > Len(path) THEN <<cur>>
    ELSE IF path[k] = "/" THEN <<cur>> \o Components(path, k + 1, <<>>)
    ELSE Components(path, k + 1, Append(cur, path[k]))

\* the loop of posixpath.normpath over the components
RECURSIVE NormComps(_, _, _)
NormComps(comps, new, slashes) ==
    IF comps = <<>> THEN new
    ELSE LET c == Head(comps)
         IN  IF c \in {<<>>, <<".">>} THEN NormComps(Tail(comps), new, slashes)
             ELSE IF \/ c # <<"..">>
                     \/ (slashes = 0 /\ new = <<>>)
                     \/ (new # <<>> /\ new[Len(new)] = <<"..">>)
                  THEN NormComps(Tail(comps), Append(new, c), slashes)
             ELSE IF new # <<>>
                  THEN NormComps(Tail(comps), SubSeq(new, 1, Len(new) - 1),
                                 slashes)
             ELSE NormComps(Tail(comps), new, slashes)

\* "/".join(comps)
RECURSIVE Join(_)
Join(comps) ==
    IF comps = <<>> THEN <<>>
    ELSE IF Len(comps) = 1 THEN comps[1]
    ELSE comps[1] \o <<"/">> \o Join(Tail(comps))

\* os.path.normpath
Normpath(path) ==
    IF path = <<>> THEN <<".">>
    ELSE LET starts(n) == Len(path) >= n /\ \A k \in 1..n : path[k] = "/"
             slashes == IF ~starts(1) THEN 0
                        ELSE IF starts(2) /\ ~starts(3) THEN 2 ELSE 1
             joined == [k \in 1..slashes |-> "/"] \o
                       Join(NormComps(Components(path, 1, <<>>), <<>>, slashes))
         IN  IF joined = <<>> THEN <<".">> ELSE joined

\* glob.glob(filename_pattern): the matching files, in the order the file
\* system lists them
Glob(fs, pattern) == IF pattern \in DOMAIN fs THEN fs[pattern] ELSE <<>>

ImportErrorLogged(bibentry) ==
    LogRecord("error", "couldn't import module", <<bibentry>>)
NoFilesLogged(bibentry) ==
    LogRecord("error", "couldn't find any aux files", <<bibentry>>)
MultipleFilesLogged(bibentry) ==
    LogRecord("error", "found multiple aux files", <<bibentry>>)

\* one iteration of the loop over config.intertex_mapping.items(): the
\* exception that leaves the handler, the new mapping and the log
ExpandEntry(mods, fs, new, l, bibentry, filename_pattern) ==
    LET sub == SubModules(mods, filename_pattern, 1)
        filenames == Glob(fs, Normpath(sub.path))
    IN  IF sub.raised = "ImportError"
        THEN [raised |-> "", new |-> new,
              log |-> Logged(l, ImportErrorLogged(bibentry))]
        ELSE IF sub.raised # ""
        THEN [raised |-> sub.raised, new |-> new, log |-> l]
        ELSE IF Len(filenames) = 0
        THEN [raised |-> "", new |-> new,
              log |-> Logged(l, NoFilesLogged(bibentry))]
        ELSE [raised |-> "",
              new |-> Append(new, <<bibentry, filenames[1]>>),
              log |-> IF Len(filenames) > 1
                      THEN Logged(l, MultipleFilesLogged(bibentry)) ELSE l]

\* filename patterns of intertex_mapping
Patterns == {
    \* /doc/*.aux
    <<"/", "doc", "/", "*.aux">>,
    \* /none/*.aux
    <<"/", "none", "/", "*.aux">>,
    \* /doc//./x.aux
    <<"/", "doc", "/", "/", ".", "/", "x.aux">>,
    \* {pkg}/doc.aux
    <<"{", "pkg", "}", "/", "doc.aux">>,
    \* {nopkg}/doc.aux
    <<"{", "nopkg", "}", "/", "doc.aux">>,
    \* {sys}/doc.aux
    <<"{", "sys", "}", "/", "doc.aux">> }

DocX == <<"/", "doc", "/", "x.aux">>
DocY == <<"/", "doc", "/", "y.aux">>
PkgDoc == <<"/", "site", "/", "pkg", "/", "doc.aux">>

ExpandInit ==
    /\ pc = "config-inited"
    /\ raised = ""
    /\ log = EmptyBag
    /\ \E n \in 0..Cardinality(Bibs) :
       \E bibs \in InjSeqs(Bibs, n) :
       \E pats \in [1..n -> Patterns] :
          intertex_mapping = [k \in 1..n |-> <<bibs[k], pats[k]>>]
    \* pkg is a package with source, nopkg cannot be imported, sys is built in
    /\ modules =
          ("pkg" :> [outcome |-> "ok", dir |-> <<"/", "site", "/", "pkg">>]) @@
          ("nopkg" :> [outcome |-> "ImportError", dir |-> <<>>]) @@
          ("sys" :> [outcome |-> "TypeError", dir |-> <<>>])
    \* /doc holds x.aux and y.aux, listed in either order
    /\ \E both \in {<<DocX, DocY>>, <<DocY, DocX>>} :
          fs_glob = (<<"/", "doc", "/", "*.aux">> :> both) @@
                    (DocX :> <<DocX>>) @@
                    (PkgDoc :> <<PkgDoc>>)
    /\ new_intertex_mapping = <<>>
    /\ aux_files = <<>>
    /\ i = 0
    /\ f = <<>>
    /\ intertex_refs = <<>>
    /\ citation_refs = <<>>
    /\ already_warned_about_redefinition = {}
    /\ citations = <<>>
    /\ format = "latex"
    /\ intertex_formats = {"latex"}
    /\ intertex_reference_format = <<>>
    /\ node = NoNode
    /\ result = NoResult
    /\ calls = 0

ExpandUnchanged ==
    UNCHANGED <<modules, fs_glob, aux_files, f, intertex_refs, citation_refs,
                already_warned_about_redefinition, citations, format,
                intertex_formats, intertex_reference_format, node, result,
                calls>>

\* new_intertex_mapping = {}
ExpandStart ==
    /\ pc = "config-inited"
    /\ new_intertex_mapping' = <<>>
    /\ i' = 1
    /\ pc' = "expand-for"
    /\ UNCHANGED <<raised, log, intertex_mapping>>
    /\ ExpandUnchanged

\* one iteration of the loop
ExpandStep ==
    /\ pc = "expand-for"
    /\ i <= Len(intertex_mapping)
    /\ LET out == ExpandEntry(modules, fs_glob, new_intertex_mapping, log,
                              intertex_mapping[i][1], intertex_mapping[i][2])
       IN  /\ new_intertex_mapping' = out.new
           /\ log' = out.log
           /\ raised' = out.raised
           /\ pc' = IF out.raised = "" THEN "expand-for" ELSE "aborted"
    /\ i' = i + 1
    /\ UNCHANGED intertex_mapping
    /\ ExpandUnchanged

\* config.intertex_mapping = new_intertex_mapping
ExpandFinish ==
    /\ pc = "expand-for"
    /\ i > Len(intertex_mapping)
    /\ intertex_mapping' = new_intertex_mapping
    /\ pc' = "expanded"
    /\ UNCHANGED <<raised, log, new_intertex_mapping, i>>
    /\ ExpandUnchanged

ExpandNext ==
    \/ ExpandStart
    \/ ExpandStep
    \/ ExpandFinish

SpecExpand == ExpandInit /\ [][ExpandNext]_vars

---------------------------------------------------------------------------
(* Claims about expand_aux_file_names *)

\* the value the new mapping holds for bibentry, <<>> if it has no such key
NewValues(bibentry) ==
    {new_intertex_mapping[k][2] :
        k \in {k \in 1..Len(new_intertex_mapping) :
                 new_intertex_mapping[k][1] = bibentry}}

\* the loop has taken every entry of the configured mapping
AllExpanded == pc = "expand-for" /\ i > Len(intertex_mapping)

\* what the claim says of the k-th configured entry once the loop is over
ExpandedAsClaimed(k) ==
    LET bibentry == intertex_mapping[k][1]
        sub == SubModules(modules, intertex_mapping[k][2], 1)
        files == Glob(fs_glob, Normpath(sub.path))
    IN  IF sub.raised = "" /\ Len(files) >= 1
        THEN /\ NewValues(bibentry) = {files[1]}
             /\ CopiesIn(NoFilesLogged(bibentry), log) = 0
        ELSE /\ NewValues(bibentry) = {}
             /\ sub.raised = "" =>
                   CopiesIn(NoFilesLogged(bibentry), log) = 1

\* C8: the handler never aborts the build; after it the mapping holds a key
\* iff its module tokens resolved and its glob matched, with the first match
\* as its value, and a pattern without a match is dropped with one error.
C8_ExpandDropsAndContinues ==
    /\ raised = ""
    /\ AllExpanded => \A k \in 1..Len(intertex_mapping) : ExpandedAsClaimed(k)
    /\ pc = "expanded" => intertex_mapping = new_intertex_mapping

\* C8 less "never aborts": what holds of the runs that reach the end
C8_ExpandWhenNotAborted ==
    /\ AllExpanded => \A k \in 1..Len(intertex_mapping) : ExpandedAsClaimed(k)
    /\ pc = "expanded" => intertex_mapping = new_intertex_mapping

====
